---- MODULE Spec2Model ----
(***************************************************************************)
(* Model of src/app.py: the TOPSIS core run_topsis (lines 28-86) and the   *)
(* /submit handler (lines 128-171) with send_email_with_attachment.        *)
(*                                                                         *)
(* Representation of the arithmetic.  All criterion values and finite      *)
(* weights of the model are integers.  norm[j] is kept as its square       *)
(* (the column's sum of squares), a weighted value of column j is kept as  *)
(* the integer x * w with the implied divisor sqrt(norm[j]), and a         *)
(* distance is kept as its square multiplied by ScaleAll, the product of   *)
(* the non-zero column sums of squares.  Every comparison the code makes   *)
(* (max, min, the ordering of scores) is exact in this representation.     *)
(* The IEEE specials the code can produce are kept: NaN (0/0, inf-inf,     *)
(* 0*inf), +inf and -inf, with pandas' skipna rule for max, min and sum.   *)
(***************************************************************************)
EXTENDS Integers, Sequences, FiniteSets, TLC

VARIABLES
    input_file,     \* run_topsis argument: the CSV at input_file, or NoTable
    weights_str,    \* run_topsis argument: the comma-separated tokens, in order
    impacts_str,    \* run_topsis argument: the comma-separated tokens, in order
    pc,             \* "call" | "returned" | "raised"
    error,          \* the message of the exception run_topsis raised
    df,             \* local df when run_topsis ended
    norm,           \* local norm (squared), or Unset
    weighted_data,  \* local weighted_data, or Unset
    ideal_best,     \* local ideal_best, or Unset
    ideal_worst,    \* local ideal_worst, or Unset
    distance_best,  \* local distance_best (squared, scaled), or Unset
    distance_worst, \* local distance_worst (squared, scaled), or Unset
    topsis_score,   \* local topsis_score, or Unset
    output_file,    \* the CSV at output_file, or Absent
    request,        \* /submit: the form of the request
    smtp,           \* /submit: what the mail environment will do
    spc,            \* /submit: position of the handler
    steps,          \* /submit: the steps the handler has executed, in order
    page            \* /submit: the rendered response

engine_vars == <<input_file, weights_str, impacts_str, pc, error, df, norm,
                 weighted_data, ideal_best, ideal_worst, distance_best, distance_worst,
                 topsis_score, output_file>>
submit_vars == <<request, smtp, spc, steps, page>>
vars == <<engine_vars, submit_vars>>

(* ------------------------------ bounds -------------------------------- *)
MaxRows == 3            \* alternatives (data rows) of an input table

(* ----------------------------- constants ------------------------------ *)
MinColumns == 3         \* df.shape[1] < 3 is rejected

NoTable == [unreadable |-> TRUE]  \* a path read_csv cannot open or parse
Unset   == << >>                  \* a local the call never assigned
Absent  == [absent |-> TRUE]      \* no file at the path
NoError == "none"

ErrFile    == "File not found"
ErrColumns == "Input file must contain three or more columns"
ErrNumeric == "From 2nd to last columns must contain numeric values only"
ErrArity   == "Number of weights, impacts and columns must be same"
ErrImpact  == "Impacts must be either + or -"
ErrWeight  == "could not convert string to float"
ErrNaNRank == "Cannot convert non-finite values (NA or inf) to integer"

ScoreColumn == "Topsis Score"
RankColumn  == "Rank"

(* ------------------------- sequences helpers -------------------------- *)
RECURSIVE SeqSum(_)
SeqSum(s) == IF Len(s) = 0 THEN 0 ELSE Head(s) + SeqSum(Tail(s))

RECURSIVE SeqProd(_)
SeqProd(s) == IF Len(s) = 0 THEN 1 ELSE Head(s) * SeqProd(Tail(s))

IndexOf(s, x) == CHOOSE i \in 1..Len(s) : s[i] = x

\* the sequence <<F(1), ..., F(n)>>
RECURSIVE Tab(_, _)
Tab(F(_), n) == IF n = 0 THEN <<>> ELSE Append(Tab(F, n - 1), F(n))

(* ------------------------ floats of the model ------------------------- *)
Fin(n)  == [k |-> "fin", v |-> n]
Inf(s)  == [k |-> "inf", v |-> s]
NaN     == [k |-> "nan", v |-> 0]
Bad     == [k |-> "err", v |-> 0]

\* float(token) as numpy / pandas convert a string
ParseFloat(tok) ==
    CASE tok = "0"    -> Fin(0)
      [] tok = "1"    -> Fin(1)
      [] tok = "2"    -> Fin(2)
      [] tok = "-1"   -> Fin(-1)
      [] tok = "inf"  -> Inf(1)
      [] tok = "-inf" -> Inf(-1)
      [] tok = "nan"  -> NaN
      [] OTHER        -> Bad

\* str.strip()
Strip(tok) ==
    CASE tok = " 1" -> "1"
      [] tok = "+ " -> "+"
      [] tok = " "  -> ""
      [] OTHER      -> tok

Sign(n) == IF n > 0 THEN 1 ELSE IF n < 0 THEN -1 ELSE 0

ExtMul(a, b) ==
    IF a.k = "nan" \/ b.k = "nan" THEN NaN
    ELSE IF a.k = "fin" /\ b.k = "fin" THEN Fin(a.v * b.v)
    ELSE IF Sign(a.v) * Sign(b.v) = 0 THEN NaN
    ELSE Inf(Sign(a.v) * Sign(b.v))

ExtSub(a, b) ==
    IF a.k = "nan" \/ b.k = "nan" THEN NaN
    ELSE IF a.k = "fin" /\ b.k = "fin" THEN Fin(a.v - b.v)
    ELSE IF a.k = "inf" /\ b.k = "inf"
         THEN (IF a.v = b.v THEN NaN ELSE Inf(a.v))
    ELSE IF a.k = "inf" THEN a
    ELSE Inf(-b.v)

ExtSq(a) ==
    IF a.k = "nan" THEN NaN
    ELSE IF a.k = "fin" THEN Fin(a.v * a.v)
    ELSE Inf(1)

ExtOrd(a) == IF a.k = "inf" THEN a.v ELSE 0

ExtLess(a, b) ==
    \/ ExtOrd(a) < ExtOrd(b)
    \/ a.k = "fin" /\ b.k = "fin" /\ a.v < b.v

(* ------------------------- run_topsis: parsing ------------------------ *)
\* [w.strip() for w in weights_str.split(",")]; a string is kept as the
\* sequence of its comma-separated pieces
SplitStrip(str) == Tab(LAMBDA t : Strip(str[t]), Len(str))

\* pd.read_csv of a readable file: the header and the rows.  The cells stay
\* the text of the file; float() is applied to them by astype (DataToken).
\* The numeric cells of the model are canonical integer literals, which
\* read_csv and to_csv reproduce unchanged, and its headers have no
\* duplicate names.
ReadCsv(file) == [columns |-> file.columns, rows |-> file.rows]

NumRows(d) == Len(d.rows)
NumColumns(d) == Len(d.columns)
NumCriteria(d) == NumColumns(d) - 1

\* data = df.iloc[:, 1:], cell by cell as float() sees it
DataToken(d, i, j) == ParseFloat(d.rows[i][j + 1])

AsTypeFloatFails(d) ==
    \E i \in 1..NumRows(d) : \E j \in 1..NumCriteria(d) : DataToken(d, i, j).k = "err"

\* data.astype(float); the tables of the model hold finite numbers only
Data(d) == Tab(LAMBDA i : Tab(LAMBDA j : DataToken(d, i, j).v, NumCriteria(d)), NumRows(d))

(* ------------------------ run_topsis: validation ---------------------- *)
\* the mutant: the arity check placed before the type check
ValidateArityFirst(d, weights, impacts) ==
    IF NumColumns(d) < MinColumns THEN ErrColumns
    ELSE IF Len(weights) # NumCriteria(d) \/ Len(impacts) # NumCriteria(d) THEN ErrArity
    ELSE IF AsTypeFloatFails(d) THEN ErrNumeric
    ELSE IF \E t \in 1..Len(impacts) : impacts[t] \notin {"+", "-"} THEN ErrImpact
    ELSE IF \E t \in 1..Len(weights) : ParseFloat(weights[t]).k = "err" THEN ErrWeight
    ELSE NoError

\* lines 40-57: the first check that fails, in the order of the code
Validate(d, weights, impacts) ==
    IF NumColumns(d) < MinColumns THEN ErrColumns
    ELSE IF AsTypeFloatFails(d) THEN ErrNumeric
    ELSE IF Len(weights) # NumCriteria(d) \/ Len(impacts) # NumCriteria(d) THEN ErrArity
    ELSE IF \E t \in 1..Len(impacts) : impacts[t] \notin {"+", "-"} THEN ErrImpact
    ELSE IF \E t \in 1..Len(weights) : ParseFloat(weights[t]).k = "err" THEN ErrWeight
    ELSE NoError

(* ------------------------- run_topsis: engine ------------------------- *)
\* norm = np.sqrt((data ** 2).sum()), kept squared
Norm(data, ncrit) ==
    Tab(LAMBDA j : SeqSum(Tab(LAMBDA i : data[i][j] * data[i][j], Len(data))), ncrit)

\* normalized_data = data / norm: 0/0 is NaN (a zero norm means a zero column)
Normalized(data, nrm, ncrit) ==
    Tab(LAMBDA i : Tab(LAMBDA j : IF nrm[j] = 0 THEN NaN ELSE Fin(data[i][j]), ncrit), Len(data))

\* weighted_data = normalized_data * weights
Weighted(normalized, w, ncrit) ==
    Tab(LAMBDA i : Tab(LAMBDA j : ExtMul(normalized[i][j], w[j]), ncrit), Len(normalized))

Column(m, j) == Tab(LAMBDA i : m[i][j], Len(m))

NotNaN(col) == {col[i] : i \in {r \in 1..Len(col) : col[r].k # "nan"}}

\* Series.max() and Series.min(): NaN entries skipped, NaN when none is left
ColMax(col) ==
    LET vals == NotNaN(col)
    IN  IF vals = {} THEN NaN ELSE CHOOSE x \in vals : \A y \in vals : ~ExtLess(x, y)

ColMin(col) ==
    LET vals == NotNaN(col)
    IN  IF vals = {} THEN NaN ELSE CHOOSE x \in vals : \A y \in vals : ~ExtLess(y, x)

\* the mutant: the two branches of the impact test exchanged
IdealBestSwapped(weighted, impacts, ncrit) ==
    Tab(LAMBDA j : IF impacts[j] = "+" THEN ColMin(Column(weighted, j))
                                       ELSE ColMax(Column(weighted, j)), ncrit)

\* lines 66-73, ideal_best
IdealBest(weighted, impacts, ncrit) ==
    Tab(LAMBDA j : IF impacts[j] = "+" THEN ColMax(Column(weighted, j))
                                       ELSE ColMin(Column(weighted, j)), ncrit)

\* lines 66-73, ideal_worst
IdealWorst(weighted, impacts, ncrit) ==
    Tab(LAMBDA j : IF impacts[j] = "+" THEN ColMin(Column(weighted, j))
                                       ELSE ColMax(Column(weighted, j)), ncrit)

\* the product of the non-zero squared norms: the common denominator
ScaleAll(nrm) == SeqProd(Tab(LAMBDA j : IF nrm[j] = 0 THEN 1 ELSE nrm[j], Len(nrm)))

ScaleOf(nrm, j) == IF nrm[j] = 0 THEN 0 ELSE ScaleAll(nrm) \div nrm[j]

\* np.sqrt(((weighted_data - ideal) ** 2).sum(axis=1)) of one row, kept
\* squared and multiplied by ScaleAll; sum(axis=1) skips NaN
Distance(row, ideal, nrm) ==
    LET sq == Tab(LAMBDA j : ExtSq(ExtSub(row[j], ideal[j])), Len(row))
    IN  IF \E j \in 1..Len(row) : sq[j].k = "inf" THEN Inf(1)
        ELSE Fin(SeqSum(Tab(LAMBDA j : IF sq[j].k = "fin" THEN sq[j].v * ScaleOf(nrm, j) ELSE 0,
                            Len(row))))

(* A score is [k, n, p, q]: for k = "fin" the real sqrt(n) / (sqrt(p) +     *)
(* sqrt(q)); in the code n = q = distance_worst^2, p = distance_best^2.   *)
ScoreNaN == [k |-> "nan", n |-> 0, p |-> 0, q |-> 0]
ScoreInf == [k |-> "inf", n |-> 0, p |-> 0, q |-> 0]
ScoreFin(n, p, q) == [k |-> "fin", n |-> n, p |-> p, q |-> q]

\* the mutant: the denominator without distance_worst
ClosenessNoSum(dw, db) ==
    IF dw.k = "inf" /\ db.k = "inf" THEN ScoreNaN
    ELSE IF dw.k = "inf" THEN ScoreInf
    ELSE IF db.k = "inf" THEN ScoreFin(0, 1, 0)
    ELSE IF db.v = 0 THEN (IF dw.v = 0 THEN ScoreNaN ELSE ScoreInf)
    ELSE ScoreFin(dw.v, db.v, 0)

\* the mutant: an undefined score coerced to 0 (fillna(0))
ClosenessZeroFill(dw, db) ==
    IF dw.k = "inf" THEN ScoreFin(0, 1, 0)
    ELSE IF db.k = "inf" THEN ScoreFin(0, 1, 0)
    ELSE IF db.v + dw.v = 0 THEN ScoreFin(0, 1, 0)
    ELSE ScoreFin(dw.v, db.v, dw.v)

\* line 81: distance_worst / (distance_best + distance_worst); inf/inf and
\* 0/0 are NaN, finite/inf is 0
Closeness(dw, db) ==
    IF dw.k = "inf" THEN ScoreNaN
    ELSE IF db.k = "inf" THEN ScoreFin(0, 1, 0)
    ELSE IF db.v + dw.v = 0 THEN ScoreNaN
    ELSE ScoreFin(dw.v, db.v, dw.v)

\* a < b for two finite scores of the code's form (n = q):
\* sqrt(a.n)/(sqrt(a.p)+sqrt(a.n)) < sqrt(b.n)/(sqrt(b.p)+sqrt(b.n))
ScoreLT(a, b) == a.n * b.p < b.n * a.p

(* --------------------------- run_topsis: rank ------------------------- *)
TopOf(scores, S) == {i \in S : \A j \in S : ~ScoreLT(scores[i], scores[j])}

RECURSIVE DenseRankOf(_, _, _, _)
DenseRankOf(scores, S, i, r) ==
    IF i \in TopOf(scores, S) THEN r
    ELSE DenseRankOf(scores, S \ TopOf(scores, S), i, r + 1)

\* the mutant: method="min" (competition ranking)
RankMin(scores) ==
    Tab(LAMBDA i : 1 + Cardinality({j \in 1..Len(scores) : ScoreLT(scores[i], scores[j])}),
        Len(scores))

\* Series.rank(ascending=False, method="dense") of finite scores: the
\* groups of equal scores are numbered 1, 2, ... from the highest down
Rank(scores) ==
    Tab(LAMBDA i : DenseRankOf(scores, 1..Len(scores), i, 1), Len(scores))

(* ------------------------- run_topsis: emitting ----------------------- *)
\* df[name] = values: an existing column is overwritten, a new one appended
SetColumn(d, name, values) ==
    IF \E c \in 1..Len(d.columns) : d.columns[c] = name
    THEN [columns |-> d.columns,
          rows |-> Tab(LAMBDA i : Tab(LAMBDA c : IF c = IndexOf(d.columns, name)
                                                 THEN values[i] ELSE d.rows[i][c],
                                      Len(d.columns)),
                       NumRows(d))]
    ELSE [columns |-> Append(d.columns, name),
          rows |-> Tab(LAMBDA i : Append(d.rows[i], values[i]), NumRows(d))]

\* df.to_csv(output_file, index=False): the header line, then the rows
ToCsv(d) == [columns |-> d.columns, rows |-> d.rows]

\* the mutant: the file written before the rank is cast to int
FinishWriteFirst(d, scores) ==
    LET d1 == SetColumn(d, ScoreColumn, scores)
    IN  IF \E i \in 1..Len(scores) : scores[i].k = "nan"
        THEN [status |-> "raised", error |-> ErrNaNRank, df |-> d1, output |-> ToCsv(d1)]
        ELSE LET d2 == SetColumn(d1, RankColumn, Rank(scores))
             IN  [status |-> "returned", error |-> NoError, df |-> d2, output |-> ToCsv(d2)]

\* lines 83-86: the rank of a NaN score is NaN and astype(int) raises on it
Finish(d, scores) ==
    LET d1 == SetColumn(d, ScoreColumn, scores)
    IN  IF \E i \in 1..Len(scores) : scores[i].k = "nan"
        THEN [status |-> "raised", error |-> ErrNaNRank, df |-> d1, output |-> Absent]
        ELSE LET d2 == SetColumn(d1, RankColumn, Rank(scores))
             IN  [status |-> "returned", error |-> NoError, df |-> d2, output |-> ToCsv(d2)]

Raised(msg, d) ==
    [status |-> "raised", error |-> msg, df |-> d, norm |-> Unset, weighted_data |-> Unset,
     ideal_best |-> Unset, ideal_worst |-> Unset, distance_best |-> Unset,
     distance_worst |-> Unset, topsis_score |-> Unset, output |-> Absent]

\* lines 59-86 on a validated table
Engine(d, weights, impacts) ==
    LET ncrit    == NumCriteria(d)
        data     == Data(d)
        w        == Tab(LAMBDA j : ParseFloat(weights[j]), ncrit)
        nrm      == Norm(data, ncrit)
        weighted == Weighted(Normalized(data, nrm, ncrit), w, ncrit)
        best     == IdealBest(weighted, impacts, ncrit)
        worst    == IdealWorst(weighted, impacts, ncrit)
        dbest    == Tab(LAMBDA i : Distance(weighted[i], best, nrm), Len(data))
        dworst   == Tab(LAMBDA i : Distance(weighted[i], worst, nrm), Len(data))
        scores   == Tab(LAMBDA i : Closeness(dworst[i], dbest[i]), Len(data))
        fin      == Finish(d, scores)
    IN  [status |-> fin.status, error |-> fin.error, df |-> fin.df, norm |-> nrm,
         weighted_data |-> weighted, ideal_best |-> best, ideal_worst |-> worst,
         distance_best |-> dbest, distance_worst |-> dworst,
         topsis_score |-> scores, output |-> fin.output]

\* run_topsis(input_file, weights_str, impacts_str, output_file)
Topsis(file, wstr, istr) ==
    LET weights == SplitStrip(wstr)
        impacts == SplitStrip(istr)
    IN  IF file = NoTable THEN Raised(ErrFile, Unset)
        ELSE LET d == ReadCsv(file)
                 e == Validate(d, weights, impacts)
             IN  IF e # NoError THEN Raised(e, d) ELSE Engine(d, weights, impacts)

(* ------------------------------ /submit ------------------------------- *)
NoFile == [nofile |-> TRUE]   \* request.files.get("file") is empty
NoPage == [kind |-> "none", text |-> ""]

MsgNoFile   == "Please upload a CSV file."
MsgComma    == "Weights and impacts must be separated by comma (,)."
MsgCount    == "Number of weights must be equal to number of impacts."
MsgImpact   == "Impacts must be either + or -."
MsgEmail    == "Format of email id is not correct."
MsgSuccess  == "Result generated and emailed successfully!"
ErrCreds    == "Email credentials missing. Set SMTP_USER and SMTP_PASS in .env"
ErrSmtp     == "smtp failure"
ErrAttach   == "attachment not found"

\* EMAIL_REGEX.match(email)
EmailMatches(email) ==
    CASE email = "a@b.co" -> TRUE
      [] email = "a@b"    -> FALSE
      [] email = "ab.co"  -> FALSE
      [] OTHER            -> FALSE

\* the mutant: the email check left out
FormErrorNoEmail(req) ==
    IF req.file = NoFile THEN MsgNoFile
    ELSE IF Len(req.weights) < 2 \/ Len(req.impacts) < 2 THEN MsgComma
    ELSE IF Len(req.weights) # Len(req.impacts) THEN MsgCount
    ELSE IF \E t \in 1..Len(req.impacts) : Strip(req.impacts[t]) \notin {"+", "-"} THEN MsgImpact
    ELSE NoError

\* lines 137-154: the first form check that fails ("," in s: two pieces or more)
FormError(req) ==
    IF req.file = NoFile THEN MsgNoFile
    ELSE IF Len(req.weights) < 2 \/ Len(req.impacts) < 2 THEN MsgComma
    ELSE IF Len(req.weights) # Len(req.impacts) THEN MsgCount
    ELSE IF \E t \in 1..Len(req.impacts) : Strip(req.impacts[t]) \notin {"+", "-"} THEN MsgImpact
    ELSE IF ~EmailMatches(req.email) THEN MsgEmail
    ELSE NoError

\* send_email_with_attachment: the exception it raises, or NoError
SendEmail(env, attachment) ==
    IF ~env.creds THEN ErrCreds
    ELSE IF attachment = Absent THEN ErrAttach
    ELSE IF ~env.server THEN ErrSmtp
    ELSE NoError

(* ------------------------------ inputs -------------------------------- *)
Ids == <<"a", "b", "c", "d", "e">>

TableOf(h, body) ==
    [columns |-> h, rows |-> Tab(LAMBDA i : <<Ids[i]>> \o body[i], Len(body))]

Bodies(ncrit, tokens) == UNION {[1..r -> [1..ncrit -> tokens]] : r \in 1..MaxRows}

Tables(headers, tokens) ==
    UNION {{TableOf(h, b) : b \in Bodies(Len(h) - 1, tokens)} : h \in headers}

EngineHeaders == {<<"Id", "A", "B">>, <<"Id", "A", "Topsis Score">>, <<"Id", "Rank", "B">>}
EngineCells   == {"0", "1"}
EngineWeights == {"1", "0", "-1", "2"}

CheckHeaders  == {<<"Id", "A">>, <<"Id", "A", "B">>}
CheckCells    == {"0", "1", "x"}
CheckWeights  == {<<"1", "1">>, <<" 1", "-1">>, <<"0", "1">>, <<"inf", "1">>, <<"nan", "1">>,
                  <<"abc", "1">>, <<"", "1">>, <<"1">>, <<"1", "1", "1">>}
CheckImpacts  == {<<"+", "+">>, <<"+ ", "-">>, <<"+", "x">>, <<"+">>, <<"+", "-", "+">>,
                  <<"+", "+", "-", "+">>}
WideHeaders   == {<<"Id", "A", "B", "C", "D">>}
WideCells     == {"1"}

UploadCells   == {"0", "1"}
FormWeights   == {<<"1", "1">>, <<"1">>, <<"abc", "1">>, <<"1", "1", "1">>}
FormImpacts   == {<<"+", "-">>, <<"+">>, <<"+", "x">>, <<"+", "-", "+">>}
FormEmails    == {"a@b.co", "a@b"}

NoRequest == [file |-> NoFile, weights |-> <<>>, impacts |-> <<>>, email |-> ""]
NoSmtp    == [creds |-> FALSE, server |-> FALSE]

LocalsUnset ==
    /\ pc = "call" /\ error = NoError /\ df = Unset /\ norm = Unset
    /\ weighted_data = Unset /\ ideal_best = Unset /\ ideal_worst = Unset
    /\ distance_best = Unset /\ distance_worst = Unset
    /\ topsis_score = Unset /\ output_file = Absent

SubmitIdle ==
    /\ request = NoRequest /\ smtp = NoSmtp /\ spc = "idle" /\ steps = <<>> /\ page = NoPage

\* a direct call of run_topsis on a numeric table with well-formed parameters
Init ==
    /\ input_file \in Tables(EngineHeaders, EngineCells)
    /\ weights_str \in [1..NumCriteria(input_file) -> EngineWeights]
    /\ impacts_str \in [1..NumCriteria(input_file) -> {"+", "-"}]
    /\ LocalsUnset
    /\ SubmitIdle

\* a direct call of run_topsis on any table with any parameters
InitCheck ==
    /\ input_file \in {NoTable} \cup Tables(CheckHeaders, CheckCells)
                             \cup Tables(WideHeaders, WideCells)
    /\ weights_str \in CheckWeights
    /\ impacts_str \in CheckImpacts
    /\ LocalsUnset
    /\ SubmitIdle

\* a POST /submit
InitSubmit ==
    /\ request \in [file : {NoFile, NoTable} \cup Tables({<<"Id", "A", "B">>}, UploadCells),
                    weights : FormWeights, impacts : FormImpacts, email : FormEmails]
    /\ smtp \in [creds : BOOLEAN, server : BOOLEAN]
    /\ spc = "form" /\ steps = <<>> /\ page = NoPage
    /\ input_file = Absent /\ weights_str = <<>> /\ impacts_str = <<>>
    /\ LocalsUnset

(* ------------------------------ actions ------------------------------- *)
SetLocals(r) ==
    /\ pc' = r.status
    /\ error' = r.error
    /\ df' = r.df
    /\ norm' = r.norm
    /\ weighted_data' = r.weighted_data
    /\ ideal_best' = r.ideal_best
    /\ ideal_worst' = r.ideal_worst
    /\ distance_best' = r.distance_best
    /\ distance_worst' = r.distance_worst
    /\ topsis_score' = r.topsis_score
    /\ output_file' = r.output

\* run_topsis, called directly
RunTopsis ==
    /\ pc = "call" /\ spc = "idle"
    /\ \E r \in {Topsis(input_file, weights_str, impacts_str)} : SetLocals(r)
    /\ UNCHANGED <<input_file, weights_str, impacts_str, submit_vars>>

\* submit, lines 131-154: the form checks
SubmitValidate ==
    /\ spc = "form"
    /\ IF FormError(request) # NoError
       THEN /\ page' = [kind |-> "error", text |-> FormError(request)]
            /\ spc' = "done"
            /\ steps' = steps
       ELSE /\ page' = page
            /\ spc' = "save"
            /\ steps' = Append(steps, "validate")
    /\ UNCHANGED <<engine_vars, request, smtp>>

\* submit, lines 157-159: file.save(input_path)
SubmitSave ==
    /\ spc = "save"
    /\ input_file' = request.file
    /\ spc' = "topsis"
    /\ steps' = Append(steps, "save")
    /\ UNCHANGED <<weights_str, impacts_str, pc, error, df, norm, weighted_data, ideal_best,
                   ideal_worst, distance_best, distance_worst, topsis_score, output_file,
                   request, smtp, page>>

\* submit, lines 162-163 and 170-171: run_topsis on the saved upload
SubmitTopsis ==
    /\ spc = "topsis"
    /\ weights_str' = request.weights
    /\ impacts_str' = request.impacts
    /\ \E r \in {Topsis(input_file, request.weights, request.impacts)} :
           /\ SetLocals(r)
           /\ IF r.status = "raised"
              THEN /\ page' = [kind |-> "exception", text |-> r.error]
                   /\ spc' = "done"
                   /\ steps' = steps
              ELSE /\ page' = page
                   /\ spc' = "email"
                   /\ steps' = Append(steps, "topsis")
    /\ UNCHANGED <<input_file, request, smtp>>

\* submit, lines 166 and 170-171: send_email_with_attachment
SubmitEmail ==
    /\ spc = "email"
    /\ LET e == SendEmail(smtp, output_file)
       IN  IF e # NoError
           THEN /\ page' = [kind |-> "exception", text |-> e]
                /\ spc' = "done"
                /\ steps' = steps
           ELSE /\ page' = page
                /\ spc' = "render"
                /\ steps' = Append(steps, "email")
    /\ UNCHANGED <<engine_vars, request, smtp>>

\* submit, line 168: the success page
SubmitRender ==
    /\ spc = "render"
    /\ page' = [kind |-> "message", text |-> MsgSuccess]
    /\ spc' = "done"
    /\ steps' = Append(steps, "message")
    /\ UNCHANGED <<engine_vars, request, smtp>>

Next == RunTopsis

NextSubmit == SubmitValidate \/ SubmitSave \/ SubmitTopsis \/ SubmitEmail \/ SubmitRender

Spec == Init /\ [][Next]_vars

SpecCheck == InitCheck /\ [][Next]_vars

SpecSubmit == InitSubmit /\ [][NextSubmit]_vars

(* ------------------- what the claims speak about ---------------------- *)
Ended        == pc # "call"
Readable     == input_file # NoTable
WeightTokens == SplitStrip(weights_str)
ImpactTokens == SplitStrip(impacts_str)

TooFewColumns == NumColumns(input_file) < MinColumns

NonNumericCell ==
    \E i \in 1..NumRows(input_file) : \E c \in 2..NumColumns(input_file) :
        ParseFloat(input_file.rows[i][c]).k = "err"

ArityMismatch ==
    \/ Len(weights_str) # NumColumns(input_file) - 1
    \/ Len(impacts_str) # NumColumns(input_file) - 1

BadImpact == \E t \in 1..Len(impacts_str) : ~(ImpactTokens[t] = "+" \/ ImpactTokens[t] = "-")

FiniteToken(tok) == ParseFloat(tok).k = "fin"

ChecksOneToFourPass ==
    Readable /\ ~TooFewColumns /\ ~NonNumericCell /\ ~ArityMismatch /\ ~BadImpact

NoNumericWork ==
    /\ norm = Unset /\ weighted_data = Unset /\ ideal_best = Unset /\ ideal_worst = Unset
    /\ distance_best = Unset /\ distance_worst = Unset /\ topsis_score = Unset

OutColumn(name) ==
    Tab(LAMBDA i : output_file.rows[i][IndexOf(output_file.columns, name)],
        Len(output_file.rows))

ScoreEq(a, b) == ~ScoreLT(a, b) /\ ~ScoreLT(b, a)

\* C1: the error raised is that of the first violated check in the order
\* columns, numeric, arity, impact, and no numeric local was computed.
C1_ValidationOrder ==
    (Ended /\ Readable) =>
        /\ TooFewColumns => (pc = "raised" /\ error = ErrColumns /\ NoNumericWork)
        /\ (~TooFewColumns /\ NonNumericCell) =>
               (pc = "raised" /\ error = ErrNumeric /\ NoNumericWork)
        /\ (~TooFewColumns /\ ~NonNumericCell /\ ArityMismatch) =>
               (pc = "raised" /\ error = ErrArity /\ NoNumericWork)
        /\ (~TooFewColumns /\ ~NonNumericCell /\ ~ArityMismatch /\ BadImpact) =>
               (pc = "raised" /\ error = ErrImpact /\ NoNumericWork)

C1_Witness ==
    /\ pc = "raised" /\ Readable /\ error = ErrNumeric
    /\ NonNumericCell /\ ArityMismatch /\ BadImpact

\* C2: a call that raised left no output file; an arity mismatch raises the
\* arity error; the output exists only when every check passed.
C2_NoOutputOnFailure ==
    /\ pc = "raised" => output_file = Absent
    /\ (Ended /\ Readable /\ ~TooFewColumns /\ ~NonNumericCell /\ ArityMismatch) =>
           (pc = "raised" /\ error = ErrArity /\ output_file = Absent)
    /\ output_file # Absent =>
           /\ pc = "returned"
           /\ ChecksOneToFourPass
           /\ \A t \in 1..Len(weights_str) : ParseFloat(WeightTokens[t]).k # "err"

\* 4 criterion columns, 3 weights, 4 impacts
C2_Witness ==
    /\ pc = "raised" /\ error = ErrArity /\ output_file = Absent
    /\ NumCriteria(input_file) = 4
    /\ Len(weights_str) = 3
    /\ Len(impacts_str) = 4

ZeroColumn(j) == \A i \in 1..NumRows(input_file) : ParseFloat(input_file.rows[i][j + 1]) = Fin(0)

\* C3: a validated input with an all-zero criterion column makes the call
\* fail, and no result is written.
C3_ZeroColumnFails ==
    (Ended /\ ChecksOneToFourPass /\ \E j \in 1..NumCriteria(input_file) : ZeroColumn(j)) =>
        (pc = "raised" /\ output_file = Absent)

ZeroTotalDistance(i) == distance_best[i] = Fin(0) /\ distance_worst[i] = Fin(0)

AllRowsIdentical ==
    \A i \in 1..NumRows(input_file) : \A c \in 2..NumColumns(input_file) :
        input_file.rows[i][c] = input_file.rows[1][c]

AllWeightsZero == \A t \in 1..Len(weights_str) : ParseFloat(WeightTokens[t]) = Fin(0)

C5_FiniteWeightsOnly ==
    (Ended /\ ChecksOneToFourPass) =>
        /\ (\A t \in 1..Len(weights_str) : FiniteToken(WeightTokens[t])) => norm # Unset
        /\ (\E t \in 1..Len(weights_str) : ~FiniteToken(WeightTokens[t])) =>
               (pc = "raised" /\ output_file = Absent)

\* 0 <= sqrt(n) / (sqrt(p) + sqrt(q)) <= 1, decided in the integers
InUnitInterval(s) ==
    /\ s.k = "fin"
    /\ s.n >= 0 /\ s.p >= 0 /\ s.q >= 0 /\ s.p + s.q > 0
    /\ \/ s.n <= s.p + s.q
       \/ (s.n - s.p - s.q) * (s.n - s.p - s.q) <= 4 * s.p * s.q

\* C6: every Topsis Score a successful call writes is S- / (S+ + S-) of the
\* row's two distances and lies in [0, 1].
C6_ScoreInUnitInterval ==
    pc = "returned" =>
        \A i \in 1..Len(output_file.rows) :
            /\ InUnitInterval(OutColumn(ScoreColumn)[i])
            /\ distance_best[i].k = "fin" /\ distance_worst[i].k = "fin"
            /\ OutColumn(ScoreColumn)[i].n = distance_worst[i].v
            /\ OutColumn(ScoreColumn)[i].p = distance_best[i].v

C6_Witness ==
    /\ pc = "returned"
    /\ \E t \in 1..Len(weights_str) : ParseFloat(WeightTokens[t]).v < 0
    /\ \E i, h \in 1..Len(output_file.rows) :
           /\ ScoreLT(OutColumn(ScoreColumn)[i], OutColumn(ScoreColumn)[h])
           /\ OutColumn(ScoreColumn)[i].n > 0
           /\ OutColumn(ScoreColumn)[h].p > 0

\* the rows that carry the first occurrence of their score
FirstOfScore(scores) ==
    {j \in 1..Len(scores) : \A h \in 1..(j - 1) : ~ScoreEq(scores[h], scores[j])}

\* C7: Rank = 1 + the number of distinct scores strictly greater; equal
\* scores share a rank, the highest score has rank 1, the ranks are 1..k.
C7_DenseRank ==
    pc = "returned" =>
        LET scores == OutColumn(ScoreColumn)
            ranks  == OutColumn(RankColumn)
            n      == Len(output_file.rows)
        IN  /\ \A i \in 1..n :
                  ranks[i] = 1 + Cardinality({j \in FirstOfScore(scores) :
                                                ScoreLT(scores[i], scores[j])})
            /\ \A i, j \in 1..n : ScoreEq(scores[i], scores[j]) => ranks[i] = ranks[j]
            /\ \A i \in 1..n : (\A j \in 1..n : ~ScoreLT(scores[i], scores[j])) => ranks[i] = 1
            /\ {ranks[i] : i \in 1..n} = 1..Cardinality(FirstOfScore(scores))

C7_Witness ==
    /\ pc = "returned"
    /\ Len(output_file.rows) = 3
    /\ OutColumn(RankColumn) = <<1, 2, 1>>

\* C8: the output is the input table, rows and columns unchanged and in
\* order, followed by the two new columns Topsis Score and Rank.
C8_OutputFrame ==
    pc = "returned" =>
        /\ output_file.columns = input_file.columns \o <<ScoreColumn, RankColumn>>
        /\ Len(output_file.rows) = Len(input_file.rows)
        /\ \A i \in 1..Len(input_file.rows) :
               SubSeq(output_file.rows[i], 1, NumColumns(input_file)) = input_file.rows[i]

Flipped(j) == Topsis(input_file, weights_str, [impacts_str EXCEPT ![j] = "-"])

MaxRawRows(j) ==
    {i \in 1..NumRows(input_file) :
        \A h \in 1..NumRows(input_file) :
            ParseFloat(input_file.rows[h][j + 1]).v <= ParseFloat(input_file.rows[i][j + 1]).v}

FlipLowers(j) ==
    \A after \in {Flipped(j)} :
        /\ after.status = pc
        /\ after.ideal_best[j] = ideal_worst[j]
        /\ after.ideal_worst[j] = ideal_best[j]
        /\ pc = "returned" =>
               \A i \in MaxRawRows(j) : ~ScoreLT(topsis_score[i], after.topsis_score[i])

\* C9 as claimed: for any accepted weights, flipping "+" to "-" on column j
\* swaps the column's ideal best and worst and does not raise the score of a
\* row holding the column's maximum raw value.
C9_FlipNeverRaises ==
    (Ended /\ ChecksOneToFourPass /\ norm # Unset) =>
        \A j \in 1..NumCriteria(input_file) : ImpactTokens[j] = "+" => FlipLowers(j)

\* C9 amended: the same, for a column j whose weight is not negative.
C9_FlipNeverRaisesNonNegative ==
    (Ended /\ ChecksOneToFourPass /\ norm # Unset) =>
        \A j \in 1..NumCriteria(input_file) :
            (ImpactTokens[j] = "+" /\ ParseFloat(WeightTokens[j]).v >= 0) => FlipLowers(j)

C9_Witness ==
    /\ pc = "returned"
    /\ \E j \in 1..NumCriteria(input_file) :
           /\ ImpactTokens[j] = "+" /\ ParseFloat(WeightTokens[j]).v > 0
           /\ \E after \in {Flipped(j)} :
                  /\ after.status = "returned"
                  /\ \E i \in MaxRawRows(j) : ScoreLT(after.topsis_score[i], topsis_score[i])

FullOrder == <<"validate", "save", "topsis", "email", "message">>

FormChecksPass ==
    /\ request.file # NoFile
    /\ Len(request.weights) >= 2 /\ Len(request.impacts) >= 2
    /\ Len(request.weights) = Len(request.impacts)
    /\ \A t \in 1..Len(request.impacts) :
           Strip(request.impacts[t]) = "+" \/ Strip(request.impacts[t]) = "-"
    /\ EmailMatches(request.email)

Has(step) == \E t \in 1..Len(steps) : steps[t] = step

\* C10: the steps of /submit run in the order validate, save, run_topsis,
\* email, message; each runs only after the one before succeeded, and a
\* failure ends the request with an error page and no later step.
C10_SubmitOrder ==
    /\ steps = SubSeq(FullOrder, 1, Len(steps))
    /\ Has("save") => FormChecksPass
    /\ input_file # Absent => (FormChecksPass /\ input_file = request.file)
    /\ Ended => Has("save")
    /\ Has("email") => (pc = "returned" /\ output_file # Absent /\ smtp.creds /\ smtp.server)
    /\ page.kind = "message" <=> Has("message")
    /\ page.kind \in {"error", "exception"} =>
           /\ spc = "done"
           /\ ~Has("message")
           /\ ~FormChecksPass <=> (steps = <<>> /\ page.kind = "error")
           /\ (FormChecksPass /\ pc = "raised") =>
                  (steps = <<"validate", "save">> /\ page.text = error)
           /\ (FormChecksPass /\ pc = "returned") =>
                  (steps = <<"validate", "save", "topsis">> /\ ~(smtp.creds /\ smtp.server))
    /\ spc = "done" => page # NoPage

C10_Witness == spc = "done" /\ page.kind = "message" /\ steps = FullOrder

====
